---------------------------- MODULE Spec2Model ----------------------------
(***************************************************************************)
(* A model of the YCSB-style load harness of src/src/main.rs: argument     *)
(* checks, the per-workload loop (load, warmup, settling pause, timed      *)
(* measurement, report) and the worker threads of the two phases.          *)
(*                                                                         *)
(* Probabilities and uniform draws are kept in hundredths (0.75 is 75);    *)
(* on that grid the f64 sums and comparisons of the program agree with     *)
(* the integer ones.  The skew exponent is kept in hundredths too.         *)
(***************************************************************************)
EXTENDS Integers, Sequences, FiniteSets, TLC

\* ---------------------------------------------------------------- bounds
MaxThreads == 2
MaxRecords == 2
MaxOps == 3

Tids == 0..(MaxThreads - 1)

\* operation counts: the small ones, and two large enough for a warmup of
\* 5% to differ between rounding modes (10) and to be non-empty (20)
OpCounts == (0..MaxOps) \cup {10, 20}

\* skew exponents in hundredths: negative, 1.00 and the default 1.03
SkewValues == {-50, 100, 103}

\* ------------------------------------------------------- program constants
\* warmup_frac = 0.05, in hundredths
warmup_frac == 5

\* WorkloadKind
WorkloadKinds == {"A", "B", "C", "D", "E", "F", "All"}

\* the YcsbWorkload literals of selected_workloads, in hundredths
\* a variant of workload C that is not read-only
cWithUpdates == [name |-> "workloadc", readprop |-> 95, updateprop |-> 5, insertprop |-> 0, scanprop |-> 0]

\* a variant of workload D that lost its insert share
dWithoutInsert == [name |-> "workloadd", readprop |-> 75, updateprop |-> 20, insertprop |-> 0, scanprop |-> 0]

a == [name |-> "workloada", readprop |-> 50, updateprop |-> 50, insertprop |-> 0, scanprop |-> 0]
b == [name |-> "workloadb", readprop |-> 95, updateprop |-> 5, insertprop |-> 0, scanprop |-> 0]
c == [name |-> "workloadc", readprop |-> 100, updateprop |-> 0, insertprop |-> 0, scanprop |-> 0]
d == [name |-> "workloadd", readprop |-> 75, updateprop |-> 20, insertprop |-> 5, scanprop |-> 0]
e == [name |-> "workloade", readprop |-> 55, updateprop |-> 0, insertprop |-> 0, scanprop |-> 45]
f == [name |-> "workloadf", readprop |-> 25, updateprop |-> 25, insertprop |-> 25, scanprop |-> 25]

\* a variant whose "all" lists two workloads in the wrong order
selected_workloadsSwapped(kind) ==
    CASE kind = "A" -> <<a>>
      [] kind = "B" -> <<b>>
      [] kind = "C" -> <<c>>
      [] kind = "D" -> <<d>>
      [] kind = "E" -> <<e>>
      [] kind = "F" -> <<f>>
      [] kind = "All" -> <<a, c, b, d, e, f>>

selected_workloads(kind) ==
    CASE kind = "A" -> <<a>>
      [] kind = "B" -> <<b>>
      [] kind = "C" -> <<c>>
      [] kind = "D" -> <<d>>
      [] kind = "E" -> <<e>>
      [] kind = "F" -> <<f>>
      [] kind = "All" -> <<a, b, c, d, e, f>>

\* the selectors the runs are started with: two single workloads and "all",
\* which runs every workload of the registry
Selectors == {"A", "C", "All"}

\* the uniform draws op_choice in [0,1) tried against a mix, in hundredths:
\* the least value and every cumulative boundary of the mix below 1, so that
\* each interval of the mix is entered at its lowest point
Draws(wl) ==
    {0} \cup ({wl.readprop, wl.readprop + wl.updateprop,
               wl.readprop + wl.updateprop + wl.insertprop} \cap (0..99))

\* ------------------------------------------------------------ pure helpers

\* make_value: the three marker bytes of the 1 KB block (all others are 0)
make_value(seed) ==
    [b0 |-> seed % 256, bmid |-> (seed \div 256) % 256, blast |-> (seed \div 65536) % 256]

\* a variant that rounds to the nearest integer instead
WarmupOpsRounded(operationcount) == (operationcount * warmup_frac + 50) \div 100

\* (operationcount as f64 * warmup_frac) as usize: the cast truncates
WarmupOps(operationcount) == (operationcount * warmup_frac) \div 100

\* a variant that forgets the remainder
AssignedOpsNoRemainder(totalOps, workerCount, tid) == totalOps \div workerCount

\* base + if tid < rem { 1 } else { 0 }
AssignedOps(totalOps, workerCount, tid) ==
    (totalOps \div workerCount) + (IF tid < totalOps % workerCount THEN 1 ELSE 0)

\* a variant whose boundaries are closed: a draw on a boundary selects the
\* earlier action
SelectOpClosed(op_choice, wl) ==
    IF op_choice <= wl.readprop THEN "read"
    ELSE IF op_choice <= wl.readprop + wl.updateprop THEN "update"
    ELSE IF op_choice <= wl.readprop + wl.updateprop + wl.insertprop THEN "insert"
    ELSE "scan"

\* the if / else-if chain of the measurement worker
SelectOp(op_choice, wl) ==
    IF op_choice < wl.readprop THEN "read"
    ELSE IF op_choice < wl.readprop + wl.updateprop THEN "update"
    ELSE IF op_choice < wl.readprop + wl.updateprop + wl.insertprop THEN "insert"
    ELSE "scan"

\* the if / else-if chain of the warmup worker: no else branch, the
\* remaining draws fall through and do nothing
WarmupSelectOp(op_choice, wl) ==
    IF op_choice < wl.readprop THEN "read"
    ELSE IF op_choice < wl.readprop + wl.updateprop THEN "update"
    ELSE IF op_choice < wl.readprop + wl.updateprop + wl.insertprop THEN "insert"
    ELSE "scan"

\* a variant whose scan branch looks the key up
AccessOfScanReads(act) ==
    CASE act = "read" -> "get"
      [] act = "update" -> "insert"
      [] act = "insert" -> "insert"
      [] act = "scan" -> "get"

\* what each selected action does to the store
AccessOf(act) ==
    CASE act = "read" -> "get"
      [] act = "update" -> "insert"
      [] act = "insert" -> "insert"
      [] act = "scan" -> "none"

\* a variant that accepts an empty domain
ZipfNewOkAnyN(n, s) == s >= 0

\* Zipf::new(n, s) of rand_distr 0.4: Err when s < 0 or n < 1
ZipfNewOk(n, s) == s >= 0 /\ n >= 1

\* a variant that uses the 1-based draw as the key
ZipfKeyNoModulo(draw, recordcount) == draw

\* (z.sample(&mut rng) as usize) % recordcount, for a draw in 1..n
ZipfKey(draw, recordcount) == draw % recordcount

\* DashMap::insert: an upsert
MapInsert(m, key, value) ==
    [k \in (DOMAIN m) \cup {key} |-> IF k = key THEN value ELSE m[k]]

EmptyMap == [k \in {} |-> make_value(0)]


\* ------------------------------------------------------------------ state
VARIABLES
    args,        \* the parsed command line (struct Args)
    pc,          \* where the main thread is
    workloads,   \* the vector returned by selected_workloads
    wlIdx,       \* 1-based index of the current iteration of `for wl in workloads`
    stores,      \* the DashMap created by each iteration: [state, m]
    loadKey,     \* the load loop's `key`
    warmup_ops,  \* the local of that name
    base, rem,   \* the locals of that name (warmup, then measurement)
    tid,         \* the index of the spawn loop or of the join loop
    warm,        \* the warmup worker threads, by tid
    meas,        \* the measurement worker threads, by tid
    timer,       \* `start`: "unset", "running" (Instant::now taken), "stopped" (elapsed taken)
    reported,    \* the workloads whose "Completed ..." line was printed
    lastOp       \* the operation performed last: phase, draw, action, store access,
                 \* store, and whether its key lay in 0..recordcount-1

vars == <<args, pc, workloads, wlIdx, stores, loadKey, warmup_ops, base, rem, tid,
          warm, meas, timer, reported, lastOp>>

MaxWorkloads == Len(selected_workloads("All"))

NoWorker == [st |-> "none", ops |-> 0, i |-> 0, ref |-> 0]
NoStore == [state |-> "none", m |-> EmptyMap]
NoOp == [phase |-> "none", u |-> 0, act |-> "none", access |-> "none", store |-> 0,
         keyInDomain |-> TRUE]

\* 0..recordcount
KeyDomain == 0..(args.recordcount - 1)

Init ==
    /\ args \in [threads : 0..MaxThreads,
                 workload : Selectors,
                 recordcount : 0..MaxRecords,
                 operationcount : OpCounts,
                 zipfian : BOOLEAN,
                 zipf_s : SkewValues]
    /\ (~args.zipfian => args.zipf_s = 103)
    /\ pc = "start"
    /\ workloads = <<>>
    /\ wlIdx = 0
    /\ stores = [n \in 1..MaxWorkloads |-> NoStore]
    /\ loadKey = 0
    /\ warmup_ops = 0
    /\ base = 0
    /\ rem = 0
    /\ tid = 0
    /\ warm = [t \in Tids |-> NoWorker]
    /\ meas = [t \in Tids |-> NoWorker]
    /\ timer = "unset"
    /\ reported = <<>>
    /\ lastOp = NoOp

\* ------------------------------------------------------------ main thread

\* a variant without the assertion
AssertThreadsMissing ==
    /\ pc = "start"
    /\ pc' = "select"
    /\ UNCHANGED <<args, workloads, wlIdx, stores, loadKey, warmup_ops, base, rem, tid,
                   warm, meas, timer, reported, lastOp>>

\* assert!(args.threads >= 1, ...)
AssertThreads ==
    /\ pc = "start"
    /\ pc' = IF args.threads >= 1 THEN "select" ELSE "panicked"
    /\ UNCHANGED <<args, workloads, wlIdx, stores, loadKey, warmup_ops, base, rem, tid,
                   warm, meas, timer, reported, lastOp>>

\* let workloads = selected_workloads(args.workload)
SelectWorkloads ==
    /\ pc = "select"
    /\ workloads' = selected_workloads(args.workload)
    /\ pc' = "loop"
    /\ UNCHANGED <<args, wlIdx, stores, loadKey, warmup_ops, base, rem, tid,
                   warm, meas, timer, reported, lastOp>>

\* for wl in workloads { println!(...); let map = Arc::new(DashMap::new());
\* `start` of the previous iteration is out of scope
NextWorkload ==
    /\ pc = "loop"
    /\ wlIdx < Len(workloads)
    /\ wlIdx' = wlIdx + 1
    /\ stores' = [stores EXCEPT ![wlIdx + 1] = [state |-> "live", m |-> EmptyMap]]
    /\ loadKey' = 0
    /\ timer' = "unset"
    /\ pc' = "load"
    /\ UNCHANGED <<args, workloads, warmup_ops, base, rem, tid, warm, meas, reported,
                   lastOp>>

\* the loop over the workloads is exhausted: main returns
Finish ==
    /\ pc = "loop"
    /\ wlIdx = Len(workloads)
    /\ pc' = "done"
    /\ UNCHANGED <<args, workloads, wlIdx, stores, loadKey, warmup_ops, base, rem, tid,
                   warm, meas, timer, reported, lastOp>>

\* one iteration of `for key in 0..args.recordcount`
LoadInsert ==
    /\ pc = "load"
    /\ loadKey < args.recordcount
    /\ stores' = [stores EXCEPT ![wlIdx].m = MapInsert(@, loadKey, make_value(loadKey))]
    /\ lastOp' = [phase |-> "load", u |-> 0, act |-> "insert", access |-> "insert",
                  store |-> wlIdx, keyInDomain |-> loadKey \in KeyDomain]
    /\ loadKey' = loadKey + 1
    /\ UNCHANGED <<args, pc, workloads, wlIdx, warmup_ops, base, rem, tid,
                   warm, meas, timer, reported>>

\* the load loop ends; warmup_ops, base and rem of the warmup are computed
WarmupPlan ==
    /\ pc = "load"
    /\ loadKey = args.recordcount
    /\ warmup_ops' = WarmupOps(args.operationcount)
    /\ base' = WarmupOps(args.operationcount) \div args.threads
    /\ rem' = WarmupOps(args.operationcount) % args.threads
    /\ tid' = 0
    /\ pc' = "warmup_spawn"
    /\ UNCHANGED <<args, workloads, wlIdx, stores, loadKey, warm, meas, timer,
                   reported, lastOp>>

\* a variant that hands every worker the map of the first iteration
SpawnedOnFirstMap(total, t) ==
    [st |-> "spawned", ops |-> AssignedOps(total, args.threads, t), i |-> 0, ref |-> 1]

\* a worker as thread::spawn leaves it: its share of the operations and its
\* clone of the Arc of this iteration's map
Spawned(total, t) ==
    [st |-> "spawned", ops |-> AssignedOps(total, args.threads, t), i |-> 0, ref |-> wlIdx]

\* one iteration of `for tid in 0..warmup_threads`
WarmupSpawn ==
    /\ pc = "warmup_spawn"
    /\ tid < args.threads
    /\ warm' = [warm EXCEPT ![tid] = Spawned(warmup_ops, tid)]
    /\ tid' = tid + 1
    /\ UNCHANGED <<args, pc, workloads, wlIdx, stores, loadKey, warmup_ops, base, rem,
                   meas, timer, reported, lastOp>>

WarmupSpawnDone ==
    /\ pc = "warmup_spawn"
    /\ tid = args.threads
    /\ tid' = 0
    /\ pc' = "warmup_join"
    /\ UNCHANGED <<args, workloads, wlIdx, stores, loadKey, warmup_ops, base, rem,
                   warm, meas, timer, reported, lastOp>>

\* a variant that does not wait for the thread
JoinOneNoWait(workers) ==
    /\ tid < args.threads
    /\ pc' = pc
    /\ tid' = tid + 1

\* a variant that joins without unwrapping the result
JoinOneIgnoresPanic(workers) ==
    /\ tid < args.threads
    /\ workers[tid].st \in {"done", "panicked"}
    /\ pc' = pc
    /\ tid' = tid + 1

\* h.join().unwrap(): blocks until the thread has ended, panics if it panicked
JoinOne(workers) ==
    /\ tid < args.threads
    /\ workers[tid].st \in {"done", "panicked"}
    /\ IF workers[tid].st = "panicked"
       THEN pc' = "panicked" /\ tid' = tid
       ELSE pc' = pc /\ tid' = tid + 1

WarmupJoin ==
    /\ pc = "warmup_join"
    /\ JoinOne(warm)
    /\ UNCHANGED <<args, workloads, wlIdx, stores, loadKey, warmup_ops, base, rem,
                   warm, meas, timer, reported, lastOp>>

WarmupJoinDone ==
    /\ pc = "warmup_join"
    /\ tid = args.threads
    /\ pc' = "sleep"
    /\ UNCHANGED <<args, workloads, wlIdx, stores, loadKey, warmup_ops, base, rem, tid,
                   warm, meas, timer, reported, lastOp>>

\* std::thread::sleep(200 ms)
Sleep ==
    /\ pc = "sleep"
    /\ pc' = "start_timer"
    /\ UNCHANGED <<args, workloads, wlIdx, stores, loadKey, warmup_ops, base, rem, tid,
                   warm, meas, timer, reported, lastOp>>

\* let start = Instant::now(); base and rem of the measurement
StartTimer ==
    /\ pc = "start_timer"
    /\ timer' = "running"
    /\ base' = args.operationcount \div args.threads
    /\ rem' = args.operationcount % args.threads
    /\ tid' = 0
    /\ pc' = "spawn"
    /\ UNCHANGED <<args, workloads, wlIdx, stores, loadKey, warmup_ops, warm, meas,
                   reported, lastOp>>

\* one iteration of `for tid in 0..args.threads`
MeasSpawn ==
    /\ pc = "spawn"
    /\ tid < args.threads
    /\ meas' = [meas EXCEPT ![tid] = Spawned(args.operationcount, tid)]
    /\ tid' = tid + 1
    /\ UNCHANGED <<args, pc, workloads, wlIdx, stores, loadKey, warmup_ops, base, rem,
                   warm, timer, reported, lastOp>>

MeasSpawnDone ==
    /\ pc = "spawn"
    /\ tid = args.threads
    /\ tid' = 0
    /\ pc' = "join"
    /\ UNCHANGED <<args, workloads, wlIdx, stores, loadKey, warmup_ops, base, rem,
                   warm, meas, timer, reported, lastOp>>

MeasJoin ==
    /\ pc = "join"
    /\ JoinOne(meas)
    /\ UNCHANGED <<args, workloads, wlIdx, stores, loadKey, warmup_ops, base, rem,
                   warm, meas, timer, reported, lastOp>>

\* the join loop ends; let elapsed = start.elapsed()
Elapsed ==
    /\ pc = "join"
    /\ tid = args.threads
    /\ timer' = "stopped"
    /\ pc' = "report"
    /\ UNCHANGED <<args, workloads, wlIdx, stores, loadKey, warmup_ops, base, rem, tid,
                   warm, meas, reported, lastOp>>

\* println!("Completed ..."); the iteration ends and its map is dropped
Report ==
    /\ pc = "report"
    /\ reported' = Append(reported, workloads[wlIdx].name)
    /\ stores' = [stores EXCEPT ![wlIdx].state = "dropped"]
    /\ pc' = "loop"
    /\ UNCHANGED <<args, workloads, wlIdx, loadKey, warmup_ops, base, rem, tid,
                   warm, meas, timer, lastOp>>

\* a panic of the main thread ends the process, and with it every worker
Exit ==
    /\ pc = "panicked"
    /\ pc' = "exited"
    /\ UNCHANGED <<args, workloads, wlIdx, stores, loadKey, warmup_ops, base, rem, tid,
                   warm, meas, timer, reported, lastOp>>

\* --------------------------------------------------------- worker threads

\* the process is alive: worker threads run until it exits
Alive == pc # "exited"

\* the start of a worker closure: thread_rng() and, when zipfian,
\* Zipf::new(recordcount as u64, zipf_s).unwrap(); with no operation
\* assigned the loop body never runs and the thread returns
Started(w) ==
    IF args.zipfian /\ ~ZipfNewOk(args.recordcount, args.zipf_s)
    THEN [w EXCEPT !.st = "panicked"]
    ELSE [w EXCEPT !.st = IF w.ops = 0 THEN "done" ELSE "running"]

\* the keys one sampling can return: the zipfian draw in 1..recordcount
\* reduced modulo recordcount, or gen_range(0..recordcount)
SampledKeys ==
    IF args.zipfian
    THEN {ZipfKey(draw, args.recordcount) : draw \in 1..args.recordcount}
    ELSE 0..(args.recordcount - 1)

\* gen_range(0..recordcount) panics on the empty range
SamplePanics == ~args.zipfian /\ args.recordcount = 0

\* a variant whose writes store the value of the neighbouring key
AppliedWrongSeed(m, act, key) ==
    IF AccessOf(act) = "insert" THEN MapInsert(m, key, make_value(key + 1)) ELSE m

\* the store after `act` at `key`: get leaves it alone, update and insert
\* both upsert make_value(key), scan does nothing
Applied(m, act, key) ==
    IF AccessOf(act) = "insert" THEN MapInsert(m, key, make_value(key)) ELSE m

\* a variant whose loop ends one iteration early
SteppedShort(w) ==
    [w EXCEPT !.i = w.i + 1, !.st = IF w.i + 2 >= w.ops THEN "done" ELSE "running"]

\* the worker after one iteration of `for _ in 0..ops`
Stepped(w) ==
    [w EXCEPT !.i = w.i + 1, !.st = IF w.i + 1 = w.ops THEN "done" ELSE "running"]

WarmupWorkerStart(t) ==
    /\ Alive
    /\ warm[t].st = "spawned"
    /\ warm' = [warm EXCEPT ![t] = Started(warm[t])]
    /\ UNCHANGED <<args, pc, workloads, wlIdx, stores, loadKey, warmup_ops, base, rem, tid,
                   meas, timer, reported, lastOp>>

\* one iteration of the warmup worker's loop
WarmupWorkerOp(t) ==
    /\ Alive
    /\ warm[t].st = "running"
    /\ IF SamplePanics
       THEN /\ warm' = [warm EXCEPT ![t].st = "panicked"]
            /\ UNCHANGED <<stores, lastOp>>
       ELSE \E op_choice \in Draws(workloads[warm[t].ref]), key \in SampledKeys :
              LET act == WarmupSelectOp(op_choice, workloads[warm[t].ref])
              IN /\ stores' = [stores EXCEPT ![warm[t].ref].m = Applied(@, act, key)]
                 /\ lastOp' = [phase |-> "warmup", u |-> op_choice, act |-> act,
                               access |-> AccessOf(act), store |-> warm[t].ref,
                               keyInDomain |-> key \in KeyDomain]
                 /\ warm' = [warm EXCEPT ![t] = Stepped(warm[t])]
    /\ UNCHANGED <<args, pc, workloads, wlIdx, loadKey, warmup_ops, base, rem, tid,
                   meas, timer, reported>>

MeasWorkerStart(t) ==
    /\ Alive
    /\ meas[t].st = "spawned"
    /\ meas' = [meas EXCEPT ![t] = Started(meas[t])]
    /\ UNCHANGED <<args, pc, workloads, wlIdx, stores, loadKey, warmup_ops, base, rem, tid,
                   warm, timer, reported, lastOp>>

\* one iteration of the measurement worker's loop
MeasWorkerOp(t) ==
    /\ Alive
    /\ meas[t].st = "running"
    /\ IF SamplePanics
       THEN /\ meas' = [meas EXCEPT ![t].st = "panicked"]
            /\ UNCHANGED <<stores, lastOp>>
       ELSE \E op_choice \in Draws(workloads[meas[t].ref]), key \in SampledKeys :
              LET act == SelectOp(op_choice, workloads[meas[t].ref])
              IN /\ stores' = [stores EXCEPT ![meas[t].ref].m = Applied(@, act, key)]
                 /\ lastOp' = [phase |-> "measure", u |-> op_choice, act |-> act,
                               access |-> AccessOf(act), store |-> meas[t].ref,
                               keyInDomain |-> key \in KeyDomain]
                 /\ meas' = [meas EXCEPT ![t] = Stepped(meas[t])]
    /\ UNCHANGED <<args, pc, workloads, wlIdx, loadKey, warmup_ops, base, rem, tid,
                   warm, timer, reported>>

Next ==
    \/ AssertThreads
    \/ SelectWorkloads
    \/ NextWorkload
    \/ Finish
    \/ LoadInsert
    \/ WarmupPlan
    \/ WarmupSpawn
    \/ WarmupSpawnDone
    \/ WarmupJoin
    \/ WarmupJoinDone
    \/ Sleep
    \/ StartTimer
    \/ MeasSpawn
    \/ MeasSpawnDone
    \/ MeasJoin
    \/ Elapsed
    \/ Report
    \/ Exit
    \/ \E t \in Tids : WarmupWorkerStart(t)
    \/ \E t \in Tids : WarmupWorkerOp(t)
    \/ \E t \in Tids : MeasWorkerStart(t)
    \/ \E t \in Tids : MeasWorkerOp(t)

Spec == Init /\ [][Next]_vars

\* the run under fair scheduling: the main thread and the spawned threads
\* are operating-system threads, so a step that stays possible is taken
FairSpec == Init /\ [][Next]_vars /\ WF_vars(Next)

\* ------------------------------------------------------ shared vocabulary

\* the tids the run uses
RunTids == 0..(args.threads - 1)

\* every worker of the phase has been spawned in the current iteration
AllSpawned(workers) ==
    /\ wlIdx >= 1
    /\ \A t \in RunTids : workers[t].ref = wlIdx /\ workers[t].st # "none"

\* the worker is a thread that has not ended
Running(w) == w.st \in {"spawned", "running"}

\* the load loop of store n has run to its end
LoadComplete(n) == n < wlIdx \/ (n = wlIdx /\ loadKey = args.recordcount)

RECURSIVE SumAssigned(_, _)
SumAssigned(workers, n) ==
    IF n = 0 THEN 0 ELSE workers[n - 1].ops + SumAssigned(workers, n - 1)

RECURSIVE SumExecuted(_, _)
SumExecuted(workers, n) ==
    IF n = 0 THEN 0 ELSE workers[n - 1].i + SumExecuted(workers, n - 1)

\* ------------------------------------------------------------------ claims

\* the partitioning rule, stated of the workers of one phase once all are
\* spawned: floor(total / n) each, one more for the first total mod n, the
\* counts sum to total and differ by at most 1
PartitionOf(workers, total) ==
    AllSpawned(workers) =>
        /\ \A t \in RunTids :
             workers[t].ops = (total \div args.threads)
                              + (IF t < total % args.threads THEN 1 ELSE 0)
        /\ SumAssigned(workers, args.threads) = total
        /\ \A t1, t2 \in RunTids : workers[t1].ops - workers[t2].ops <= 1

\* C1: in the warmup and in the measurement phase worker tid is assigned
\* floor(totalOps / workerCount) operations plus one when
\* tid < totalOps mod workerCount; the assigned counts sum to totalOps and
\* the largest and the smallest differ by at most 1.
C1_Partitioning ==
    /\ PartitionOf(warm, warmup_ops)
    /\ PartitionOf(meas, args.operationcount)

\* C1 witness: two workers, 20 operations: the single warmup operation goes
\* to worker 0 and the measurement is split 10 and 10
C1_Witness ==
    /\ args.threads = 2
    /\ args.operationcount = 20
    /\ AllSpawned(warm)
    /\ AllSpawned(meas)
    /\ warm[0].ops = 1 /\ warm[1].ops = 0
    /\ meas[0].ops = 10 /\ meas[1].ops = 10

\* every measurement worker of the current iteration has returned after
\* exactly its assigned operations
MeasAllDone ==
    /\ AllSpawned(meas)
    /\ \A t \in RunTids : meas[t].st = "done" /\ meas[t].i = meas[t].ops

\* C2: the measurement timer is started before any measurement worker is
\* spawned and is stopped, and the throughput reported, only after every
\* measurement worker has completed all of its assigned operations.
C2_TimerBrackets ==
    /\ \A t \in Tids :
         (meas[t].ref = wlIdx /\ wlIdx >= 1 /\ meas[t].st # "none")
            => timer \in {"running", "stopped"}
    /\ timer = "stopped" => MeasAllDone
    /\ (wlIdx >= 1 /\ Len(reported) = wlIdx) => MeasAllDone

\* C2 witness: the timer is stopped after two workers have shared 3 operations
C2_Witness ==
    /\ timer = "stopped"
    /\ args.threads = 2
    /\ args.operationcount = 3
    /\ meas[0].i = 2 /\ meas[1].i = 1

\* every warmup worker of the current iteration has returned
WarmAllDone ==
    /\ AllSpawned(warm)
    /\ \A t \in RunTids : warm[t].st = "done" /\ warm[t].i = warm[t].ops

\* the phases as the states show them: a warmup worker exists only once the
\* load has inserted every key, the timer is set only once every warmup
\* worker has returned, and no measurement worker lives beside a warmup worker
PhaseOrder ==
    /\ \A t \in Tids :
         (wlIdx >= 1 /\ warm[t].ref = wlIdx /\ warm[t].st # "none")
            => /\ LoadComplete(wlIdx)
               /\ DOMAIN stores[wlIdx].m = KeyDomain
    /\ timer \in {"running", "stopped"} => WarmAllDone
    /\ \A t1, t2 \in Tids : ~(Running(warm[t1]) /\ Running(meas[t2]))

\* the phases as the steps show them: the timer is started from the state
\* the settling pause leaves, which is entered from the pause alone, and the
\* pause is entered only from the warmup join; and while the timer runs no
\* load insert and no warmup operation is performed
PhaseSteps ==
    /\ (timer' = "running" /\ timer # "running") => pc = "start_timer"
    /\ (pc' = "start_timer" /\ pc # "start_timer") => pc = "sleep"
    /\ (pc' = "sleep" /\ pc # "sleep") => (pc = "warmup_join" /\ WarmAllDone)
    /\ timer = "running" =>
         /\ warm' = warm
         /\ loadKey' = loadKey
         /\ lastOp' # lastOp => lastOp'.phase = "measure"

\* C3: within a workload run the phases are ordered load, warmup, settling
\* pause, measurement: no warmup worker is spawned before the load has
\* inserted every key, the timer starts only after every warmup worker has
\* returned and the pause has elapsed, no load or warmup store operation
\* happens while the timer runs, and no measurement worker runs beside a
\* warmup worker.
C3_PhaseOrder == [](PhaseOrder) /\ [][PhaseSteps]_vars

\* C3 witness: the timer runs, a measurement operation has been performed,
\* and the warmup before it had two workers, one of which performed an
\* operation
C3_Witness ==
    /\ timer = "running"
    /\ args.threads = 2
    /\ args.recordcount = 2
    /\ WarmAllDone
    /\ warm[0].i = 1
    /\ lastOp.phase = "measure"

\* C4: when the measurement phase completes, the operations executed by the
\* measurement workers (reads, updates, inserts and scans, a scan counting
\* as one) add up to operationcount, and each worker has executed exactly
\* its assigned count; no worker ever exceeds it.
C4_ExactOpCount ==
    /\ \A t \in Tids : meas[t].i <= meas[t].ops /\ warm[t].i <= warm[t].ops
    /\ timer = "stopped" =>
         /\ SumExecuted(meas, args.threads) = args.operationcount
         /\ \A t \in RunTids :
              meas[t].i = AssignedOps(args.operationcount, args.threads, t)

\* C4 witness: a measurement of 3 operations by two workers is complete and
\* its last operation was a scan
C4_Witness ==
    /\ timer = "stopped"
    /\ args.threads = 2
    /\ args.operationcount = 3
    /\ SumExecuted(meas, 2) = 3
    /\ lastOp.phase = "measure"
    /\ lastOp.act = "scan"

\* the action the selection rule gives for draw u against mix wl, each
\* branch by its own half-open interval
RuleAction(u, wl) ==
    CASE u < wl.readprop -> "read"
      [] wl.readprop <= u /\ u < wl.readprop + wl.updateprop -> "update"
      [] wl.readprop + wl.updateprop <= u
         /\ u < wl.readprop + wl.updateprop + wl.insertprop -> "insert"
      [] wl.readprop + wl.updateprop + wl.insertprop <= u -> "scan"

\* C5: the action of an operation of either phase is read if u < pRead,
\* else update if u < pRead+pUpdate, else insert if
\* u < pRead+pUpdate+pInsert, else scan; a draw equal to a cumulative
\* boundary selects the later action.
C5_ActionSelection ==
    lastOp.phase \in {"warmup", "measure"} =>
        lastOp.act = RuleAction(lastOp.u, workloads[lastOp.store])

\* C5 witness: in a measurement of workload F the draw 0.75, the boundary
\* between insert and scan, has selected scan
C5_Witness ==
    /\ lastOp.phase = "measure"
    /\ workloads[lastOp.store] = f
    /\ lastOp.u = 75
    /\ lastOp.act = "scan"

\* C6: with a thread count of 0 the run fails before the load phase of any
\* workload: no store is constructed, no key inserted, no worker spawned and
\* no result reported.
C6_ZeroThreadsFailFast ==
    args.threads = 0 =>
        /\ pc \in {"start", "panicked", "exited"}
        /\ \A n \in 1..MaxWorkloads : stores[n] = NoStore
        /\ \A t \in Tids : warm[t] = NoWorker /\ meas[t] = NoWorker
        /\ lastOp = NoOp
        /\ reported = <<>>
        /\ timer = "unset"

\* C6 witness: the run with 0 threads has panicked
C6_Witness ==
    /\ args.threads = 0
    /\ pc = "panicked"

\* nothing of any phase has happened: no store, no insert, no worker
NothingRun ==
    /\ \A n \in 1..MaxWorkloads : stores[n] = NoStore
    /\ \A t \in Tids : warm[t] = NoWorker /\ meas[t] = NoWorker
    /\ lastOp = NoOp
    /\ reported = <<>>

\* C7: with the zipfian distribution and a skew exponent s <= 1.0 the run
\* signals a configuration error at startup, before any phase: no store is
\* constructed, no load insert performed and no worker spawned.
C7_SkewRejectedAtStartup ==
    (args.zipfian /\ args.zipf_s <= 100) => NothingRun

\* the warmup plan of the current iteration has been computed
WarmupPlanned ==
    /\ wlIdx >= 1
    /\ pc \in {"warmup_spawn", "warmup_join", "sleep", "start_timer", "spawn", "join",
               "report", "loop"}

\* C8 as stated: the warmup runs round(operationcount x 0.05) operations,
\* rounded to the nearest integer.
C8_WarmupRounded ==
    WarmupPlanned => warmup_ops = (args.operationcount * 5 + 50) \div 100

\* C8 as amended: the warmup runs floor(operationcount x 0.05) operations,
\* the product truncated toward zero, with the worker count, the mix and the
\* key distribution of the measurement: its workers are as many, their
\* assigned counts sum to that total, and they hold the map whose workload
\* the measurement workers run.
C8_WarmupTruncated ==
    /\ WarmupPlanned =>
         /\ warmup_ops * 100 <= args.operationcount * 5
         /\ args.operationcount * 5 < (warmup_ops + 1) * 100
    /\ AllSpawned(warm) => SumAssigned(warm, args.threads) = warmup_ops
    /\ (AllSpawned(warm) /\ AllSpawned(meas)) =>
         \A t \in RunTids : warm[t].ref = meas[t].ref

\* C8 witness: 10 operations are asked for and the warmup, fully spawned,
\* has none (rounding would give 1)
C8_Witness ==
    /\ args.operationcount = 10
    /\ args.threads = 2
    /\ WarmupPlanned
    /\ AllSpawned(warm)
    /\ warmup_ops = 0

\* what the states show of the isolation of the workloads: at most the
\* store of the current iteration is in use, a store is empty when its load
\* begins, and a thread that has not ended belongs to the current iteration
Isolation ==
    /\ \A n \in 1..MaxWorkloads : stores[n].state = "live" => n = wlIdx
    /\ \A n \in 1..MaxWorkloads : n > wlIdx => stores[n] = NoStore
    /\ (pc = "load" /\ loadKey = 0) => stores[wlIdx].m = EmptyMap
    /\ \A t \in Tids :
         /\ Running(warm[t]) => warm[t].ref = wlIdx
         /\ Running(meas[t]) => meas[t].ref = wlIdx
    /\ pc = "load" => \A t \in Tids : ~Running(warm[t]) /\ ~Running(meas[t])

\* what the steps show of it: an operation acts on the store of the
\* current iteration, and a store that was dropped never changes
IsolationSteps ==
    /\ (lastOp' # lastOp \/ stores' # stores) =>
         \A n \in 1..MaxWorkloads : n # wlIdx' => stores'[n].m = stores[n].m
    /\ lastOp' # lastOp => lastOp'.store = wlIdx'
    /\ \A n \in 1..MaxWorkloads : stores[n].state = "dropped" => stores'[n] = stores[n]

\* C9: the workloads run one after the other, each on a fresh store: when
\* the load of a workload begins its store is empty and no worker of an
\* earlier workload is still running, and no store operation of a workload
\* acts on the store of another.
C9_WorkloadIsolation == [](Isolation) /\ [][IsolationSteps]_vars

\* C9 witness: the load of the second workload begins on an empty store,
\* the first workload's store filled and dropped, its two workers done
C9_Witness ==
    /\ wlIdx = 2
    /\ pc = "load"
    /\ loadKey = 0
    /\ args.threads = 2
    /\ args.recordcount = 2
    /\ stores[1].state = "dropped"
    /\ DOMAIN stores[1].m = {0, 1}
    /\ stores[2] = [state |-> "live", m |-> EmptyMap]
    /\ meas[0].st = "done" /\ meas[1].st = "done" /\ meas[1].i >= 1

\* C10: after the load the key set of the store is exactly
\* 0..recordcount-1, and throughout the warmup and the measurement it never
\* holds a key outside that range nor loses one.
C10_KeySetStable ==
    \A n \in 1..MaxWorkloads :
        /\ DOMAIN stores[n].m \subseteq KeyDomain
        /\ LoadComplete(n) =>
             /\ DOMAIN stores[n].m = KeyDomain
             /\ Cardinality(DOMAIN stores[n].m) = args.recordcount

\* C10 witness: a zipfian measurement over 2 records has ended with an
\* insert and the store holds the keys 0 and 1
C10_Witness ==
    /\ timer = "stopped"
    /\ args.zipfian
    /\ args.recordcount = 2
    /\ args.threads = 2
    /\ lastOp.phase = "measure"
    /\ lastOp.access = "insert"
    /\ DOMAIN stores[wlIdx].m = {0, 1}

\* the step is one iteration of the loop of worker t of the phase
OpStep(workers, workersNext, t) ==
    /\ workers[t].st = "running"
    /\ workersNext[t].i = workers[t].i + 1

\* the name of the workload worker w runs
NameOf(w) == workloads[w.ref].name

\* every operation of a worker of workload C is a read that leaves every
\* store as it was
ReadOnlySteps ==
    \A t \in Tids :
        /\ (OpStep(meas, meas', t) /\ NameOf(meas[t]) = "workloadc") =>
             /\ lastOp'.phase = "measure"
             /\ lastOp'.act = "read"
             /\ lastOp'.access = "get"
             /\ stores' = stores
        /\ (OpStep(warm, warm', t) /\ NameOf(warm[t]) = "workloadc") =>
             /\ lastOp'.phase = "warmup"
             /\ lastOp'.act = "read"
             /\ lastOp'.access = "get"
             /\ stores' = stores

\* once the measurement of workload C is complete its operations, all of
\* them reads, are operationcount in number
ReadOnlyTotal ==
    /\ (timer = "stopped" /\ workloads[wlIdx].name = "workloadc") =>
         SumExecuted(meas, args.threads) = args.operationcount
    /\ (lastOp.phase \in {"warmup", "measure"}
        /\ workloads[lastOp.store].name = "workloadc") => lastOp.access = "get"

\* C11: for workload C (pRead = 1, the others 0) every operation of the
\* warmup and of the measurement is a read: the measurement issues exactly
\* operationcount reads and no write, and the store is not modified after
\* the load.
C11_ReadOnlyWorkload == [](ReadOnlyTotal) /\ [][ReadOnlySteps]_vars

\* C11 witness: the measurement of workload C, selected alone, is complete:
\* two workers have issued 3 reads over 2 records
C11_Witness ==
    /\ args.workload = "C"
    /\ timer = "stopped"
    /\ args.threads = 2
    /\ args.recordcount = 2
    /\ args.operationcount = 3
    /\ SumExecuted(meas, 2) = 3
    /\ lastOp.phase = "measure"
    /\ lastOp.act = "read"

\* the step is taken by the running worker t of the phase
WorkerStep(workers, workersNext, t) ==
    /\ workers[t].st = "running"
    /\ workersNext[t] # workers[t]

\* what a step of worker t that selects scan does: no store access, every
\* store as it was, one more iteration of the worker's loop and nothing
\* else of any worker changed
ScanStep(workers, workersNext, t) ==
    /\ lastOp'.access = "none"
    /\ stores' = stores
    /\ workersNext[t].i = workers[t].i + 1
    /\ workersNext[t].ops = workers[t].ops
    /\ \A t2 \in Tids \ {t} : workersNext[t2] = workers[t2]

\* C12: an operation that selects the scan branch performs no store access
\* and leaves the store unchanged, yet consumes one unit of the worker's
\* assigned count, in the warmup and in the measurement.
C12_ScanIsNoOp ==
    [][\A t \in Tids :
         /\ (WorkerStep(meas, meas', t) /\ lastOp'.act = "scan")
              => ScanStep(meas, meas', t)
         /\ (WorkerStep(warm, warm', t) /\ lastOp'.act = "scan")
              => ScanStep(warm, warm', t)]_vars

\* C12 witness: the single operation of a warmup has been a scan
C12_Witness ==
    /\ lastOp.phase = "warmup"
    /\ lastOp.act = "scan"
    /\ lastOp.access = "none"
    /\ args.threads = 2
    /\ args.recordcount = 2
    /\ warm[0].i = 1
    /\ warm[0].st = "done"

WarmPanicked == \E t \in Tids : warm[t].st = "panicked"
MeasPanicked == \E t \in Tids : meas[t].st = "panicked"

\* where a run with a failed worker can be: the workload's result is not
\* reported, a failed warmup is followed by no timer and no measurement
\* worker, a failed measurement by no elapsed time
FailureIsFatal ==
    /\ (WarmPanicked \/ MeasPanicked) => Len(reported) = wlIdx - 1
    /\ WarmPanicked =>
         /\ pc \in {"warmup_spawn", "warmup_join", "panicked", "exited"}
         /\ timer = "unset"
         /\ \A t \in Tids : meas[t].ref # wlIdx
    /\ MeasPanicked =>
         /\ pc \in {"spawn", "join", "panicked", "exited"}
         /\ timer = "running"

\* what a run with a failed worker can still do: it reports nothing, starts
\* no other workload, and the failed worker stays failed
FailureSteps ==
    /\ (WarmPanicked \/ MeasPanicked) =>
         /\ reported' = reported
         /\ wlIdx' = wlIdx
         /\ pc' # "done"
    /\ \A t \in Tids :
         /\ warm[t].st = "panicked" => warm'[t] = warm[t]
         /\ meas[t].st = "panicked" => meas'[t] = meas[t]

\* C13: a worker that panics in the warmup or in the measurement is fatal
\* to the run: no result is reported for that workload or a later one, no
\* later phase or workload is started, and the worker's operations are not
\* retried.
C13_WorkerFailureFatal == [](FailureIsFatal) /\ [][FailureSteps]_vars

\* C13 witness: both measurement workers have panicked on an empty key
\* range, after a warmup that returned, and the process has exited
C13_Witness ==
    /\ pc = "exited"
    /\ args.threads = 2
    /\ ~args.zipfian
    /\ args.operationcount = 3
    /\ WarmAllDone
    /\ meas[0].st = "panicked"
    /\ meas[1].st = "panicked"
    /\ reported = <<>>

\* the names of the registry in its order A, B, C, D, E, F
RegistryNames ==
    <<"workloada", "workloadb", "workloadc", "workloadd", "workloade", "workloadf">>

\* the names a failure-free run started with selector kind reports
ExpectedReport(kind) ==
    CASE kind = "A" -> <<"workloada">>
      [] kind = "B" -> <<"workloadb">>
      [] kind = "C" -> <<"workloadc">>
      [] kind = "D" -> <<"workloadd">>
      [] kind = "E" -> <<"workloade">>
      [] kind = "F" -> <<"workloadf">>
      [] kind = "All" -> RegistryNames

\* C14: a failure-free run reports exactly one result per selected
\* workload, in registry order: "all" runs and reports A, B, C, D, E, F in
\* that order, a single selector only its workload; and the result of
\* workload i is reported before the store of workload i+1 is constructed.
C14_ReportsInRegistryOrder ==
    /\ \A kind \in WorkloadKinds :
         /\ Len(selected_workloads(kind)) = Len(ExpectedReport(kind))
         /\ \A n \in 1..Len(ExpectedReport(kind)) :
              selected_workloads(kind)[n].name = ExpectedReport(kind)[n]
    /\ Len(reported) <= Len(ExpectedReport(args.workload))
    /\ \A n \in 1..Len(reported) : reported[n] = ExpectedReport(args.workload)[n]
    /\ pc = "done" => reported = ExpectedReport(args.workload)
    /\ \A n \in 1..MaxWorkloads : stores[n].state # "none" => Len(reported) >= n - 1

\* C14 witness: the run of "all" with two workers is done and has reported
\* six results
C14_Witness ==
    /\ pc = "done"
    /\ args.workload = "All"
    /\ args.threads = 2
    /\ args.operationcount = 3
    /\ Len(reported) = 6

\* C15: every key a worker samples, uniform or zipfian, lies in
\* 0..recordcount-1 with recordcount > 0; a zipfian draw in 1..recordcount
\* is reduced modulo recordcount, so the draw recordcount gives key 0 and
\* every other draw itself.  Hence every get and insert of the warmup and
\* of the measurement targets a key of that range.
C15_KeysInDomain ==
    /\ lastOp.keyInDomain
    /\ lastOp.phase \in {"warmup", "measure"} => args.recordcount > 0
    /\ args.recordcount > 0 =>
         /\ SampledKeys \subseteq KeyDomain
         /\ \A draw \in 1..args.recordcount :
              ZipfKey(draw, args.recordcount)
                  = (IF draw = args.recordcount THEN 0 ELSE draw)

\* C15 witness: a zipfian warmup over 2 records has looked a key up
C15_Witness ==
    /\ args.zipfian
    /\ args.zipf_s = 103
    /\ args.recordcount = 2
    /\ args.threads = 2
    /\ lastOp.phase = "warmup"
    /\ lastOp.access = "get"
    /\ lastOp.keyInDomain

\* the canonical table (read, update, insert, scan), in hundredths
CanonicalTable ==
    <<[name |-> "workloada", readprop |-> 50, updateprop |-> 50, insertprop |-> 0,
       scanprop |-> 0],
      [name |-> "workloadb", readprop |-> 95, updateprop |-> 5, insertprop |-> 0,
       scanprop |-> 0],
      [name |-> "workloadc", readprop |-> 100, updateprop |-> 0, insertprop |-> 0,
       scanprop |-> 0],
      [name |-> "workloadd", readprop |-> 75, updateprop |-> 20, insertprop |-> 5,
       scanprop |-> 0],
      [name |-> "workloade", readprop |-> 55, updateprop |-> 0, insertprop |-> 0,
       scanprop |-> 45],
      [name |-> "workloadf", readprop |-> 25, updateprop |-> 25, insertprop |-> 25,
       scanprop |-> 25]>>

\* the names of the workloads whose scan share is 0
ScanFreeNames == {"workloada", "workloadb", "workloadc", "workloadd"}

\* the registry read as a table: the canonical rows, every probability >= 0,
\* each row summing to 1, and no draw of a scan-free row selecting scan
RegistryIsCanonical ==
    /\ selected_workloads("All") = CanonicalTable
    /\ \A n \in 1..MaxWorkloads :
         LET wl == selected_workloads("All")[n]
         IN /\ wl.readprop >= 0 /\ wl.updateprop >= 0
            /\ wl.insertprop >= 0 /\ wl.scanprop >= 0
            /\ wl.readprop + wl.updateprop + wl.insertprop + wl.scanprop = 100
            /\ wl.name \in ScanFreeNames =>
                 /\ wl.scanprop = 0
                 /\ \A u \in 0..99 : SelectOp(u, wl) # "scan"
                 /\ \A u \in 0..99 : WarmupSelectOp(u, wl) # "scan"

\* C17: the six mixes of the registry are the canonical table; every
\* probability is >= 0 and each mix sums to 1, so for A, B, C and D, whose
\* scan share is 0, no draw in [0,1) selects the scan branch, and no
\* operation of these workloads is a scan.
C17_RegistryTable ==
    /\ RegistryIsCanonical
    /\ (lastOp.phase \in {"warmup", "measure"}
        /\ workloads[lastOp.store].name \in ScanFreeNames) => lastOp.act # "scan"

\* C17 witness: in a measurement of workload D the draw 0.95, its last
\* cumulative boundary below 1, has selected insert
C17_Witness ==
    /\ lastOp.phase = "measure"
    /\ workloads[lastOp.store].name = "workloadd"
    /\ lastOp.u = 95
    /\ lastOp.act = "insert"

\* a valid configuration: at least one thread, a non-empty key domain, and
\* under zipfian a skew exponent above 1
ValidConfig ==
    /\ args.threads >= 1
    /\ args.recordcount > 0
    /\ args.zipfian => args.zipf_s > 100

\* the run has terminated with a result for every selected workload
TerminatedWithReports ==
    /\ pc = "done"
    /\ reported = ExpectedReport(args.workload)

\* a valid configuration never fails: no worker and no main thread panics
NeverFails ==
    ValidConfig =>
        /\ pc \notin {"panicked", "exited"}
        /\ \A t \in Tids : warm[t].st # "panicked" /\ meas[t].st # "panicked"

\* the join of a phase: the orchestrator passes the handle of worker tid only
\* when that worker has ended, and leaves the join for the next phase only
\* when every worker of the phase has returned
JoinBarrier ==
    /\ (pc = "warmup_join" /\ tid' # tid) => warm[tid].st = "done"
    /\ (pc = "join" /\ tid' # tid) => meas[tid].st = "done"
    /\ (pc = "warmup_join" /\ pc' # pc) =>
         \/ pc' = "sleep" /\ \A t \in RunTids : warm[t].st = "done"
         \/ pc' = "panicked" /\ warm[tid].st = "panicked"
    /\ (pc = "join" /\ pc' # pc) =>
         \/ pc' = "report" /\ \A t \in RunTids : meas[t].st = "done"
         \/ pc' = "panicked" /\ meas[tid].st = "panicked"

\* C18: for a valid configuration, under fair scheduling, every phase
\* completes and the run eventually terminates having reported a result for
\* every selected workload; and there is no early-termination path: the
\* orchestrator never proceeds past the join of a phase while a worker of
\* that phase has not returned.
C18_Termination ==
    /\ ValidConfig ~> TerminatedWithReports
    /\ [](NeverFails)
    /\ [][JoinBarrier]_vars

\* C18 witness: a valid zipfian run of "all" with two workers has terminated
\* with its six results, the last measurement having executed 3 operations
C18_Witness ==
    /\ ValidConfig
    /\ TerminatedWithReports
    /\ args.workload = "All"
    /\ args.zipfian
    /\ args.threads = 2
    /\ args.operationcount = 3
    /\ meas[0].i = 2 /\ meas[1].i = 1

\* the content the load phase leaves: every key of the domain with its value
LoadedContent == [k \in KeyDomain |-> make_value(k)]

\* C19: in every reachable state each key k present in a store maps to
\* make_value(k); updates and inserts are idempotent upserts, so from the end
\* of the load on, through the warmup and the measurement, the content of the
\* store is the content the load left, whatever the mix, the worker count
\* and the interleaving of the writers.
C19_ValuesAreMakeValue ==
    \A n \in 1..MaxWorkloads :
        /\ \A k \in DOMAIN stores[n].m : stores[n].m[k] = make_value(k)
        /\ LoadComplete(n) => stores[n].m = LoadedContent

\* C19 witness: over a single record two measurement workers of workload A
\* have written the same key, the last operation being an update, and the
\* store holds what the load left
C19_Witness ==
    /\ args.recordcount = 1
    /\ args.threads = 2
    /\ args.operationcount = 3
    /\ timer = "stopped"
    /\ workloads[wlIdx].name = "workloada"
    /\ meas[0].i = 2 /\ meas[1].i = 1
    /\ lastOp.phase = "measure" /\ lastOp.act = "update" /\ lastOp.access = "insert"
    /\ stores[wlIdx].m = LoadedContent

\* recordcount = 0 with at least one thread
ZeroRecords == args.recordcount = 0 /\ args.threads >= 1

\* the main thread has panicked
MainFailed == pc \in {"panicked", "exited"}

\* what the states of a run with recordcount = 0 show
ZeroRecordsStates ==
    ZeroRecords =>
        \* the load inserts nothing and no store operation is ever performed
        /\ \A n \in 1..MaxWorkloads : stores[n].m = EmptyMap
        /\ lastOp = NoOp
        /\ \A t \in Tids : warm[t].i = 0 /\ meas[t].i = 0
        \* a failure of the run is the failure of a worker the join found
        /\ MainFailed =>
             /\ pc \notin {"start", "select"}
             /\ \/ warm[tid].st = "panicked"
                \/ meas[tid].st = "panicked"
        \* zipfian: a warmup worker that has started has failed at Zipf::new,
        \* whatever its share of operations, and no measurement is reached
        /\ args.zipfian =>
             /\ \A t \in Tids : warm[t].st \in {"none", "spawned", "panicked"}
             /\ \A t \in Tids : meas[t].st = "none"
        \* uniform: a worker with an operation to perform never completes it
        /\ ~args.zipfian =>
             \A t \in Tids :
                /\ warm[t].st = "done" => warm[t].ops = 0
                /\ meas[t].st = "done" => meas[t].ops = 0
                /\ warm[t].st = "panicked" => warm[t].ops >= 1
                /\ meas[t].st = "panicked" => meas[t].ops >= 1
        \* with an operation to perform nothing is reported
        /\ (args.zipfian \/ args.operationcount >= 1) =>
             /\ reported = <<>>
             /\ pc # "done"
             /\ timer # "stopped"
        \* uniform with no operation: nothing fails
        /\ (~args.zipfian /\ args.operationcount = 0) =>
             /\ ~MainFailed
             /\ \A t \in Tids : warm[t].st # "panicked" /\ meas[t].st # "panicked"

\* recordcount = 0 passes the startup check
ZeroRecordsAccepted == (pc = "start" /\ ZeroRecords) => pc' = "select"

\* C20: recordcount = 0 is not rejected at startup. With threads >= 1 the
\* load inserts nothing and the run fails inside a worker: under zipfian
\* every warmup worker fails when it constructs its sampler, even with no
\* operation assigned, and under uniform a worker fails on the first
\* operation it samples a key for; so with operationcount >= 1 no result is
\* ever reported and the run ends in a panic, while under uniform with
\* operationcount = 0 the run completes and reports a result.
C20_ZeroRecords ==
    /\ [](ZeroRecordsStates)
    /\ [][ZeroRecordsAccepted]_vars
    /\ (ZeroRecords /\ (args.zipfian \/ args.operationcount >= 1)) ~> (pc = "exited")
    /\ (ZeroRecords /\ ~args.zipfian /\ args.operationcount = 0) ~> TerminatedWithReports

\* C20 witness: a zipfian run over no record and with no operation has
\* ended in a panic after both of its warmup workers failed at Zipf::new
C20_Witness ==
    /\ ZeroRecords
    /\ args.zipfian
    /\ args.zipf_s = 103
    /\ args.operationcount = 0
    /\ args.threads = 2
    /\ pc = "exited"
    /\ warm[0].st = "panicked" /\ warm[0].ops = 0
    /\ warm[1].st = "panicked" /\ warm[1].ops = 0
    /\ reported = <<>>

=============================================================================
